---- MODULE Spec2Model ----
(***************************************************************************)
(* Model of src/context/mod.rs of redismodule-rs: the call-option builder, *)
(* the invocation engine with its reply decoder, the reply encoder and the *)
(* ACL key-permission check and the server-version query of Context.       *)
(*                                                                         *)
(* Text (Rust String / &str) is a sequence of code points, byte strings    *)
(* (Vec<u8>, CString) are sequences of 0..255.  The five components share   *)
(* no state (Context holds only the opaque ctx pointer), so each has its   *)
(* own specification over its own variables; Spec is their interleaving.   *)
(***************************************************************************)
EXTENDS Integers, Sequences, FiniteSets, TLC

VARIABLES
    options,      \* CallOptionsBuilder.options
    flagCalls,    \* history: the flag of every setter call so far, in call order
    token,        \* CallOptions.options returned by the last constract(), <<>> if none
    tokenCalls,   \* history: flagCalls at the time of the last constract()
    builds,       \* number of constract() calls so far
    callPc,       \* "idle", or how the invocation in hand ended: "returned" / "panicked"
    command,      \* the command name of the invocation in hand
    callReply,    \* the reply handle RedisModule_Call gave that invocation
    result,       \* the RedisResult the invocation returned
    trace,        \* what the invocation did to reply handles: decode and free events
    replyPc,      \* "idle", or how the reply() in hand ended: "returned" / "panicked"
    context,      \* the context reply() ran in
    sent,         \* the RedisResult handed to reply()
    emitted,      \* the reply primitives that reply() called, in order
    status,       \* the Status reply() returned
    permissions,  \* AclPermissions.flags
    aclPc,        \* "idle", or "returned" after acl_check_key_permission
    aclArgs,      \* its arguments and what the host answered
    aclResult,    \* the Result it returned
    aclLog,       \* the host primitives it called, in order
    versionPc,    \* "idle", or how the version query in hand ended
    versionArgs,  \* its entry point, and what the host has to answer
    versionResult,\* the Result<Version, RedisError> it returned
    versionLog    \* the host primitives it called, in order

builderVars == <<options, flagCalls, token, tokenCalls, builds>>
callVars == <<callPc, command, callReply, result, trace>>
replyVars == <<replyPc, context, sent, emitted, status>>
aclVars == <<permissions, aclPc, aclArgs, aclResult, aclLog>>
versionVars == <<versionPc, versionArgs, versionResult, versionLog>>
vars == <<builderVars, callVars, replyVars, aclVars, versionVars>>
\* what a component's actions leave alone
notBuilder == <<callVars, replyVars, aclVars, versionVars>>
notCall == <<builderVars, replyVars, aclVars, versionVars>>
notReply == <<builderVars, callVars, aclVars, versionVars>>
notAcl == <<builderVars, callVars, replyVars, versionVars>>
notVersion == <<builderVars, callVars, replyVars, aclVars>>

(***************************************************************************)
(* Bounds                                                                  *)
(***************************************************************************)
MaxFlags == 3      \* setter calls on one builder
MaxBuilds == 2     \* constract() calls on one builder
MaxLen == 2        \* elements of one Array / Map / Set

(***************************************************************************)
(* Characters                                                              *)
(***************************************************************************)
NUL == 0
LF == 10
CR == 13
SPACE == 32

(***************************************************************************)
(* CallOptionsBuilder (mod.rs 43-107)                                      *)
(***************************************************************************)
BaseFlag == <<118>>                    \* "v"
FlagNoWrites == <<87>>                 \* "W"
FlagScriptMode == <<83>>               \* "S"
FlagVerifyAcl == <<67>>                \* "C"
FlagVerifyOom == <<77>>                \* "M"
FlagErrorsAsReplies == <<69>>          \* "E"
FlagReplicate == <<33>>                \* "!"
FlagResp3 == <<51>>                    \* "3"

\* CallOptionsBuilder::default / new
BuilderDefault == BaseFlag

\* a setter that skips a flag the buffer already holds
add_flag_dedup(opts, flag) ==
    IF \E i \in 1..Len(opts) : <<opts[i]>> = flag THEN opts ELSE opts \o flag

\* fn add_flag(&mut self, flag: &str) { self.options.push_str(flag) }
add_flag(opts, flag) == opts \o flag

\* fn constract(&self) -> CallOptions: a copy of the buffer with '\0' pushed
constract(opts) == Append(opts, NUL)

BuilderInit ==
    /\ options = BuilderDefault
    /\ flagCalls = <<>>
    /\ token = <<>>
    /\ tokenCalls = <<>>
    /\ builds = 0

Setter(flag) ==
    /\ Len(flagCalls) < MaxFlags
    /\ options' = add_flag(options, flag)
    /\ flagCalls' = flagCalls \o flag
    /\ UNCHANGED <<token, tokenCalls, builds>>

NoWrites == Setter(FlagNoWrites) /\ UNCHANGED notBuilder
ScriptMode == Setter(FlagScriptMode) /\ UNCHANGED notBuilder
VerifyAcl == Setter(FlagVerifyAcl) /\ UNCHANGED notBuilder
VerifyOom == Setter(FlagVerifyOom) /\ UNCHANGED notBuilder
ErrorsAsReplies == Setter(FlagErrorsAsReplies) /\ UNCHANGED notBuilder
Replicate == Setter(FlagReplicate) /\ UNCHANGED notBuilder
Resp3 == Setter(FlagResp3) /\ UNCHANGED notBuilder

Constract ==
    /\ builds < MaxBuilds
    /\ token' = constract(options)
    /\ tokenCalls' = flagCalls
    /\ builds' = builds + 1
    /\ UNCHANGED <<options, flagCalls>>
    /\ UNCHANGED notBuilder

\* a fresh CallOptionsBuilder::new() replaces the one in hand
BuilderNew ==
    /\ options' = BuilderDefault
    /\ flagCalls' = <<>>
    /\ token' = <<>>
    /\ tokenCalls' = <<>>
    /\ builds' = 0
    /\ UNCHANGED notBuilder

NextBuilder ==
    \/ NoWrites
    \/ ScriptMode
    \/ VerifyAcl
    \/ VerifyOom
    \/ ErrorsAsReplies
    \/ Replicate
    \/ Resp3
    \/ Constract
    \/ BuilderNew

(***************************************************************************)
(* Value model: RedisValue, RedisError, RedisResult                        *)
(*                                                                         *)
(* An f64 payload is written as a whole number of halves (3 is 1.5), which *)
(* keeps Float/Double payloads with and without a fractional part.         *)
(***************************************************************************)
Ok(v) == [ok |-> TRUE, val |-> v]
Err(e) == [ok |-> FALSE, err |-> e]

ErrWrongArity == [e |-> "WrongArity", msg |-> <<>>]
ErrWrongType == [e |-> "WrongType", msg |-> <<>>]
ErrString(m) == [e |-> "String", msg |-> m]
ErrStr(m) == [e |-> "Str", msg |-> m]

\* a RedisValue: n holds a number, s a text or byte string, t the format of
\* a verbatim string, items / map / set the content of a container
EmptyMap == [x \in {} |-> 0]
Value(k, n, s, t, items, map, set) ==
    [kind |-> k, n |-> n, s |-> s, t |-> t, items |-> items, map |-> map, set |-> set]
Scalar(k, n, s) == Value(k, n, s, <<>>, <<>>, EmptyMap, {})
VInteger(i) == Scalar("Integer", i, <<>>)
VFloat(h) == Scalar("Float", h, <<>>)
VDouble(h) == Scalar("Double", h, <<>>)
VBool(b) == Scalar("Bool", IF b THEN 1 ELSE 0, <<>>)
VSimpleString(txt) == Scalar("SimpleString", 0, txt)
VSimpleStringStatic(txt) == Scalar("SimpleStringStatic", 0, txt)
VBulkString(txt) == Scalar("BulkString", 0, txt)
VBulkRedisString(bytes) == Scalar("BulkRedisString", 0, bytes)
VStringBuffer(bytes) == Scalar("StringBuffer", 0, bytes)
VBigNumber(txt) == Scalar("BigNumber", 0, txt)
VVerbatimString(fmt, bytes) == Value("VerbatimString", 0, bytes, fmt, <<>>, EmptyMap, {})
VArray(items) == Value("Array", 0, <<>>, <<>>, items, EmptyMap, {})
VMap(map) == Value("Map", 0, <<>>, <<>>, <<>>, map, {})
VSet(set) == Value("Set", 0, <<>>, <<>>, <<>>, EmptyMap, set)
VNull == Scalar("Null", 0, <<>>)
VNoReply == Scalar("NoReply", 0, <<>>)

\* the static messages of parse_call_reply
ErrOnMethodCall ==      \* "Error on method call"
    <<69,114,114,111,114,32,111,110,32,109,101,116,104,111,100,32,99,97,108,108>>
ErrMapKey ==            \* "type is not supported as map key"
    <<116,121,112,101,32,105,115,32,110,111,116,32,115,117,112,112,111,114,116,
      101,100,32,97,115,32,109,97,112,32,107,101,121>>
ErrSetMember ==         \* "type is not supported on set"
    <<116,121,112,101,32,105,115,32,110,111,116,32,115,117,112,112,111,114,116,
      101,100,32,111,110,32,115,101,116>>

(***************************************************************************)
(* Text and number conversions of the standard library                     *)
(***************************************************************************)
\* the UTF-8 encoding of one char
Utf8(c) ==
    IF c < 128 THEN <<c>>
    ELSE IF c < 2048 THEN <<192 + (c \div 64), 128 + (c % 64)>>
    ELSE IF c < 65536
         THEN <<224 + (c \div 4096), 128 + ((c \div 64) % 64), 128 + (c % 64)>>
    ELSE <<240 + (c \div 262144), 128 + ((c \div 4096) % 64),
           128 + ((c \div 64) % 64), 128 + (c % 64)>>

\* str::as_bytes: the UTF-8 bytes of a text
RECURSIVE as_bytes(_)
as_bytes(s) == IF s = <<>> THEN <<>> ELSE Utf8(Head(s)) \o as_bytes(Tail(s))

RECURSIVE Digits(_)
Digits(n) == IF n < 10 THEN <<48 + n>> ELSE Append(Digits(n \div 10), 48 + (n % 10))

\* i64::to_string
IntToString(i) == IF i < 0 THEN <<45>> \o Digits(0 - i) ELSE Digits(i)

\* f64::to_string of h halves: "1.5" for 3, "1" for 2, "-0.5" for -1
F64ToString(h) ==
    LET a == IF h < 0 THEN 0 - h ELSE h
    IN  (IF h < 0 THEN <<45>> ELSE <<>>) \o Digits(a \div 2)
            \o (IF a % 2 = 1 THEN <<46, 53>> ELSE <<>>)

\* CString::new(bytes): fails on an interior NUL byte
CStringNew(bytes) ==
    IF \E i \in 1..Len(bytes) : bytes[i] = 0
    THEN [ok |-> FALSE, bytes |-> <<>>]
    ELSE [ok |-> TRUE, bytes |-> bytes]

(***************************************************************************)
(* Reply handles of the host                                               *)
(*                                                                         *)
(* A handle is NullPtr or a tagged reply object: n holds its number, s its  *)
(* text or bytes, t the format of a verbatim string, ch its children (for  *)
(* a Map: key 0, value 0, key 1, value 1, ...).  A handle is named by its  *)
(* path from the root.                                                     *)
(***************************************************************************)
Handle(tag, n, s, t, ch) == [tag |-> tag, n |-> n, s |-> s, t |-> t, ch |-> ch]
NullPtr == Handle("NullPtr", 0, <<>>, <<>>, <<>>)
HInteger(i) == Handle("Integer", i, <<>>, <<>>, <<>>)
HString(bytes) == Handle("String", 0, bytes, <<>>, <<>>)
HError(txt) == Handle("Error", 0, txt, <<>>, <<>>)
HUnknown == Handle("Unknown", 0, <<>>, <<>>, <<>>)
HNull == Handle("Null", 0, <<>>, <<>>, <<>>)
HBool(i) == Handle("Bool", i, <<>>, <<>>, <<>>)
HDouble(h) == Handle("Double", h, <<>>, <<>>, <<>>)
HBigNumber(txt) == Handle("BigNumber", 0, txt, <<>>, <<>>)
HVerbatimString(fmt, bytes) == Handle("VerbatimString", 0, bytes, fmt, <<>>)
HArray(ch) == Handle("Array", 0, <<>>, <<>>, ch)
HMap(ch) == Handle("Map", 0, <<>>, <<>>, ch)
HSet(ch) == Handle("Set", 0, <<>>, <<>>, ch)
Root == <<>>

\* raw::call_reply_length
call_reply_length(r) == IF r.tag = "Map" THEN Len(r.ch) \div 2 ELSE Len(r.ch)

\* raw::call_reply_type: the tag the host reports; Unknown for a null handle
call_reply_type(r) == IF r.tag = "NullPtr" THEN "Unknown" ELSE r.tag

DecodeEv(h) == [ev |-> "decode", h |-> h]
FreeEv(h) == [ev |-> "free", h |-> h]
Decoded(res, tr) == [result |-> res, trace |-> tr]

\* the narrowing of a decoded map key to bytes (mod.rs 299-308)
MapKeyBytes(val) ==
    CASE val.kind = "SimpleString" -> [some |-> TRUE, bytes |-> as_bytes(val.s)]
      [] val.kind = "SimpleStringStatic" -> [some |-> TRUE, bytes |-> as_bytes(val.s)]
      [] val.kind = "BulkString" -> [some |-> TRUE, bytes |-> as_bytes(val.s)]
      [] val.kind = "BulkRedisString" -> [some |-> TRUE, bytes |-> val.s]
      [] val.kind = "Integer" -> [some |-> TRUE, bytes |-> as_bytes(IntToString(val.n))]
      [] val.kind = "Float" -> [some |-> TRUE, bytes |-> as_bytes(F64ToString(val.n))]
      [] val.kind = "StringBuffer" -> [some |-> TRUE, bytes |-> val.s]
      [] OTHER -> [some |-> FALSE, bytes |-> <<>>]

\* the narrowing of a decoded set member to bytes (mod.rs 322-331)
SetMemberBytes(val) ==
    CASE val.kind = "SimpleString" -> [some |-> TRUE, bytes |-> as_bytes(val.s)]
      [] val.kind = "SimpleStringStatic" -> [some |-> TRUE, bytes |-> as_bytes(val.s)]
      [] val.kind = "BulkString" -> [some |-> TRUE, bytes |-> as_bytes(val.s)]
      [] val.kind = "BulkRedisString" -> [some |-> TRUE, bytes |-> val.s]
      [] val.kind = "Integer" -> [some |-> TRUE, bytes |-> as_bytes(IntToString(val.n))]
      [] val.kind = "Float" -> [some |-> TRUE, bytes |-> as_bytes(F64ToString(val.n))]
      [] val.kind = "StringBuffer" -> [some |-> TRUE, bytes |-> val.s]
      [] OTHER -> [some |-> FALSE, bytes |-> <<>>]

\* HashMap::insert
MapInsert(m, k, val) == [x \in (DOMAIN m) \cup {k} |-> IF x = k THEN val ELSE m[x]]

RECURSIVE parse_call_reply(_, _)
RECURSIVE ParseArray(_, _, _, _, _)
RECURSIVE ParseMap(_, _, _, _, _)
RECURSIVE ParseSet(_, _, _, _, _)

\* an Array arm that drops a failing element and what follows it
ParseArrayPartial(r, h, i, vec, tr) ==
    IF i > call_reply_length(r) THEN Decoded(Ok(VArray(vec)), tr)
    ELSE LET d == parse_call_reply(r.ch[i], Append(h, i - 1))
         IN  IF ~d.result.ok THEN Decoded(Ok(VArray(vec)), tr \o d.trace)
             ELSE ParseArray(r, h, i + 1, Append(vec, d.result.val), tr \o d.trace)

\* the Array arm: for i in 0..length, push parse_call_reply(element i)?
ParseArray(r, h, i, vec, tr) ==
    IF i > call_reply_length(r) THEN Decoded(Ok(VArray(vec)), tr)
    ELSE LET d == parse_call_reply(r.ch[i], Append(h, i - 1))
         IN  IF ~d.result.ok THEN Decoded(d.result, tr \o d.trace)
             ELSE ParseArray(r, h, i + 1, Append(vec, d.result.val), tr \o d.trace)

\* the Map arm: key?, then value?, then the key narrowed, then insert
ParseMap(r, h, i, map, tr) ==
    IF i > call_reply_length(r) THEN Decoded(Ok(VMap(map)), tr)
    ELSE LET k == parse_call_reply(r.ch[2 * i - 1], Append(Append(h, i - 1), 0))
         IN  IF ~k.result.ok THEN Decoded(k.result, tr \o k.trace)
             ELSE LET w == parse_call_reply(r.ch[2 * i], Append(Append(h, i - 1), 1))
                      kb == MapKeyBytes(k.result.val)
                  IN  IF ~w.result.ok THEN Decoded(w.result, tr \o k.trace \o w.trace)
                      ELSE IF ~kb.some
                      THEN Decoded(Err(ErrStr(ErrMapKey)), tr \o k.trace \o w.trace)
                      ELSE ParseMap(r, h, i + 1, MapInsert(map, kb.bytes, w.result.val),
                                    tr \o k.trace \o w.trace)

\* the Set arm: member?, then the member narrowed, then insert
ParseSet(r, h, i, set, tr) ==
    IF i > call_reply_length(r) THEN Decoded(Ok(VSet(set)), tr)
    ELSE LET d == parse_call_reply(r.ch[i], Append(h, i - 1))
             mb == SetMemberBytes(d.result.val)
         IN  IF ~d.result.ok THEN Decoded(d.result, tr \o d.trace)
             ELSE IF ~mb.some
             THEN Decoded(Err(ErrStr(ErrSetMember)), tr \o d.trace)
             ELSE ParseSet(r, h, i + 1, set \cup {mb.bytes}, tr \o d.trace)

\* an Unknown arm that yields Value::Null
ParseUnknownAsNull(h) == Decoded(Ok(VNull), <<DecodeEv(h)>>)

\* raw::ReplyType::Unknown => Err(RedisError::Str("Error on method call"))
ParseUnknown(h) == Decoded(Err(ErrStr(ErrOnMethodCall)), <<DecodeEv(h)>>)

\* fn parse_call_reply(reply) -> RedisResult, with the handles it visited
parse_call_reply(r, h) ==
    LET t == call_reply_type(r)
        here == <<DecodeEv(h)>>
    IN  CASE t = "Error" -> Decoded(Err(ErrString(r.s)), here)
          [] t = "Unknown" -> ParseUnknown(h)
          [] t = "Array" -> ParseArray(r, h, 1, <<>>, here)
          [] t = "Integer" -> Decoded(Ok(VInteger(r.n)), here)
          [] t = "String" -> Decoded(Ok(VStringBuffer(r.s)), here)
          [] t = "Null" -> Decoded(Ok(VNull), here)
          [] t = "Map" -> ParseMap(r, h, 1, EmptyMap, here)
          [] t = "Set" -> ParseSet(r, h, 1, {}, here)
          [] t = "Bool" -> Decoded(Ok(VBool(r.n # 0)), here)
          [] t = "Double" -> Decoded(Ok(VDouble(r.n)), here)
          [] t = "BigNumber" -> Decoded(Ok(VBigNumber(r.s)), here)
          [] t = "VerbatimString" -> Decoded(Ok(VVerbatimString(r.t, r.s)), here)

(***************************************************************************)
(* Invocation engine: call_internal, call_ext, call (mod.rs 224-266)       *)
(***************************************************************************)
\* raw::FMT, the option string of call(): "v" and its terminator
FMT == <<118, 0>>

\* an engine that releases the reply only when decoding succeeded
call_internal_leak_on_error(r) ==
    LET d == parse_call_reply(r, Root)
    IN  Decoded(d.result,
                d.trace \o (IF d.result.ok THEN <<FreeEv(Root)>> ELSE <<>>))

\* call_internal from the reply of RedisModule_Call on: decode, then
\* free_call_reply when the handle is not null
call_internal(r) ==
    LET d == parse_call_reply(r, Root)
    IN  Decoded(d.result,
                d.trace \o (IF r.tag # "NullPtr" THEN <<FreeEv(Root)>> ELSE <<>>))

\* the replies the host hands back
SeqsUpTo(S, n) == UNION {[1..k -> S] : k \in 0..n}

Leaves ==
    { HInteger(7), HInteger(0 - 12), HString(<<55>>), HString(<<97, 0, 13>>),
      HError(<<69, 82, 82>>), HUnknown, HNull, HBool(1), HBool(0), HDouble(3),
      HBigNumber(<<49, 50>>), HVerbatimString(<<116, 120, 116>>, <<104, 105>>) }
ElemLeaves == { HInteger(7), HString(<<55>>), HDouble(3), HNull, HError(<<69, 82, 82>>) }
KeyLeaves == { HInteger(7), HString(<<55>>), HDouble(3), HError(<<69, 82, 82>>) }
ValLeaves == { HInteger(7), HUnknown }

\* the children of a Map reply: the pairs, flattened
RECURSIVE Flatten(_)
Flatten(pairs) ==
    IF pairs = <<>> THEN <<>> ELSE <<Head(pairs)[1], Head(pairs)[2]>> \o Flatten(Tail(pairs))

Containers ==
    {HArray(s) : s \in SeqsUpTo(ElemLeaves, MaxLen)}
        \cup {HMap(Flatten(s)) : s \in SeqsUpTo(KeyLeaves \X ValLeaves, MaxLen)}
        \cup {HSet(s) : s \in SeqsUpTo(ElemLeaves, MaxLen)}
Nested ==
    {HArray(<<HInteger(7), c>>) : c \in Containers}
        \cup {HMap(<<c, HInteger(7)>>) : c \in Containers}
        \cup {HMap(<<HString(<<55>>), c>>) : c \in Containers}
        \cup {HSet(<<c>>) : c \in Containers}
HostReplies == {NullPtr} \cup Leaves \cup Containers \cup Nested

\* command names: "get", and one with an interior NUL
Commands == { <<103, 101, 116>>, <<103, 0>> }
OptionTokens == { constract(BuilderDefault), constract(add_flag(BuilderDefault, FlagResp3)) }

CallInit ==
    /\ callPc = "idle"
    /\ command = [api |-> "none", name |-> <<>>, options |-> <<>>]
    /\ callReply = NullPtr
    /\ result = Ok(VNull)
    /\ trace = <<>>

\* one invocation: CString::new(command).unwrap(), RedisModule_Call, then
\* call_internal's decode and release
Invoke(api, name, opts) ==
    /\ callPc = "idle"
    /\ command' = [api |-> api, name |-> name, options |-> opts]
    /\ IF ~CStringNew(as_bytes(name)).ok
       THEN /\ callPc' = "panicked"
            /\ UNCHANGED <<callReply, result, trace>>
       ELSE \E r \in HostReplies :
                /\ callPc' = "returned"
                /\ callReply' = r
                /\ result' = call_internal(r).result
                /\ trace' = call_internal(r).trace

\* call_internal(command, options, args)
CallInternal ==
    /\ \E name \in Commands, opts \in OptionTokens \cup {FMT} :
            Invoke("call_internal", name, opts)
    /\ UNCHANGED notCall

\* call_ext(command, options, args): call_internal with the token's bytes
CallExt ==
    /\ \E name \in Commands, opts \in OptionTokens : Invoke("call_ext", name, opts)
    /\ UNCHANGED notCall

\* call(command, args): call_internal with raw::FMT
Call ==
    /\ \E name \in Commands : Invoke("call", name, FMT)
    /\ UNCHANGED notCall

\* the invocation's result goes to its caller
CallDone ==
    /\ callPc # "idle"
    /\ callPc' = "idle"
    /\ command' = [api |-> "none", name |-> <<>>, options |-> <<>>]
    /\ callReply' = NullPtr
    /\ result' = Ok(VNull)
    /\ trace' = <<>>
    /\ UNCHANGED notCall

NextCall == CallInternal \/ CallExt \/ Call \/ CallDone

(***************************************************************************)
(* Reply encoder: Context::reply and its helpers (mod.rs 194-204, 347-563) *)
(*                                                                         *)
(* ctx is the context of the command being served: keysPos (the host runs  *)
(* a keys-position request), featureTest (the build has the "test"         *)
(* feature, with no host behind it) and hostStatus (what the host's reply  *)
(* primitives return).  An outcome is the primitives called, in order, the *)
(* Status returned, and whether the call panicked instead of returning.    *)
(***************************************************************************)
Prim(call, n, s, t) == [call |-> call, n |-> n, s |-> s, t |-> t]
Out(ev, st) == [emitted |-> ev, status |-> st, panicked |-> FALSE]
Panic(ev) == [emitted |-> ev, status |-> "none", panicked |-> TRUE]

\* a check that reports the host's answer inverted
is_keys_position_request_inverted(ctx) ==
    IF ctx.featureTest THEN FALSE ELSE ~ctx.keysPos

\* fn is_keys_position_request(&self) -> bool
is_keys_position_request(ctx) ==
    IF ctx.featureTest THEN FALSE ELSE ctx.keysPos

\* fn str_as_legal_resp_string(s: &str) -> CString: each char to one byte,
\* '\r' | '\n' | '\0' to b' ' and any other c to (c as u8); then
\* CString::new(..).unwrap()
str_as_legal_resp_string(s) ==
    CStringNew([i \in 1..Len(s) |->
                   IF s[i] \in {CR, LF, NUL} THEN SPACE ELSE s[i] % 256])

\* fn reply_simple_string(&self, s: &str)
reply_simple_string(s, ctx) ==
    LET msg == str_as_legal_resp_string(s)
    IN  IF ~msg.ok THEN Panic(<<>>)
        ELSE Out(<<Prim("ReplyWithSimpleString", 0, msg.bytes, <<>>)>>, ctx.hostStatus)

\* fn reply_error_string(&self, s: &str)
reply_error_string(s, ctx) ==
    LET msg == str_as_legal_resp_string(s)
    IN  IF ~msg.ok THEN Panic(<<>>)
        ELSE Out(<<Prim("ReplyWithError", 0, msg.bytes, <<>>)>>, ctx.hostStatus)

\* RedisError::WrongType.to_string()
WrongTypeMsg ==      \* "WRONGTYPE Operation against a key holding the wrong kind of value"
    <<87,82,79,78,71,84,89,80,69,32,79,112,101,114,97,116,105,111,110,32,97,103,
      97,105,110,115,116,32,97,32,107,101,121,32,104,111,108,100,105,110,103,32,
      116,104,101,32,119,114,111,110,103,32,107,105,110,100,32,111,102,32,118,
      97,108,117,101>>

\* the arms of reply() for the scalar values
ReplyInteger(v, ctx) == Out(<<Prim("ReplyWithLongLong", v.n, <<>>, <<>>)>>, ctx.hostStatus)
ReplyFloat(v, ctx) == Out(<<Prim("ReplyWithDouble", v.n, <<>>, <<>>)>>, ctx.hostStatus)
ReplyDouble(v, ctx) == Out(<<Prim("ReplyWithDouble", v.n, <<>>, <<>>)>>, ctx.hostStatus)

\* a Bool arm that replies with an integer
ReplyBoolAsLongLong(v, ctx) ==
    Out(<<Prim("ReplyWithLongLong", v.n, <<>>, <<>>)>>, ctx.hostStatus)

ReplyBool(v, ctx) == Out(<<Prim("ReplyWithBool", v.n, <<>>, <<>>)>>, ctx.hostStatus)
ReplyNull(ctx) == Out(<<Prim("ReplyWithNull", 0, <<>>, <<>>)>>, ctx.hostStatus)

\* SimpleStringStatic and SimpleString: CString::new(s).unwrap(), then the
\* simple-string primitive
ReplySimpleString(v, ctx) ==
    LET msg == CStringNew(as_bytes(v.s))
    IN  IF ~msg.ok THEN Panic(<<>>)
        ELSE Out(<<Prim("ReplyWithSimpleString", 0, msg.bytes, <<>>)>>, ctx.hostStatus)

ReplyBulkString(v, ctx) ==
    Out(<<Prim("ReplyWithStringBuffer", 0, as_bytes(v.s), <<>>)>>, ctx.hostStatus)
ReplyBulkRedisString(v, ctx) ==
    Out(<<Prim("ReplyWithString", 0, v.s, <<>>)>>, ctx.hostStatus)
ReplyStringBuffer(v, ctx) ==
    Out(<<Prim("ReplyWithStringBuffer", 0, v.s, <<>>)>>, ctx.hostStatus)
ReplyBigNumber(v, ctx) ==
    Out(<<Prim("ReplyWithBigNumber", 0, as_bytes(v.s), <<>>)>>, ctx.hostStatus)
ReplyVerbatimString(v, ctx) ==
    Out(<<Prim("ReplyWithVerbatimStringType", 0, v.s, v.t)>>, ctx.hostStatus)

\* a NoReply arm that replies with a null
ReplyNoReplyAsNull(ctx) == Out(<<Prim("ReplyWithNull", 0, <<>>, <<>>)>>, ctx.hostStatus)

\* Ok(RedisValue::NoReply) => raw::Status::Ok
ReplyNoReply(ctx) == Out(<<>>, "Ok")

\* Err(RedisError::WrongArity)
ReplyWrongArity(ctx) ==
    IF is_keys_position_request(ctx) THEN Out(<<>>, "Err")
    ELSE Out(<<Prim("WrongArity", 0, <<>>, <<>>)>>, ctx.hostStatus)

\* the orders in which a HashMap / HashSet may hand out its content
Orders(S) ==
    {f \in [1..Cardinality(S) -> S] : \A i, j \in 1..Cardinality(S) : i # j => f[i] # f[j]}

\* after the outcome a of one step, the outcomes b of the rest; a panic ends it
Then(a, rest) ==
    IF a.panicked THEN {a}
    ELSE {[emitted |-> a.emitted \o b.emitted, status |-> b.status,
           panicked |-> b.panicked] : b \in rest}

RECURSIVE reply(_, _)
RECURSIVE ReplyElems(_, _, _)
RECURSIVE ReplyPairs(_, _, _, _)
RECURSIVE ReplyMembers(_, _, _)

\* for elem in array { self.reply(Ok(elem)); }  raw::Status::Ok
ReplyElems(items, i, ctx) ==
    IF i > Len(items) THEN {Out(<<>>, "Ok")}
    ELSE UNION {Then(a, ReplyElems(items, i + 1, ctx)) : a \in reply(Ok(items[i]), ctx)}

\* a Map loop that emits each value ahead of its key
ReplyPairsValueFirst(map, order, i, ctx) ==
    IF i > Len(order) THEN {Out(<<>>, "Ok")}
    ELSE UNION {Then(a, Then(Out(<<Prim("ReplyWithStringBuffer", 0, order[i], <<>>)>>, "Ok"),
                             ReplyPairs(map, order, i + 1, ctx)))
                  : a \in reply(Ok(map[order[i]]), ctx)}

\* for (key, val) in map { ReplyWithStringBuffer(key); self.reply(Ok(val)); }
ReplyPairs(map, order, i, ctx) ==
    IF i > Len(order) THEN {Out(<<>>, "Ok")}
    ELSE UNION {Then(Out(<<Prim("ReplyWithStringBuffer", 0, order[i], <<>>)>>, "Ok"),
                     Then(a, ReplyPairs(map, order, i + 1, ctx)))
                  : a \in reply(Ok(map[order[i]]), ctx)}

\* for val in set { ReplyWithStringBuffer(val); }
ReplyMembers(order, i, ctx) ==
    IF i > Len(order) THEN {Out(<<>>, "Ok")}
    ELSE Then(Out(<<Prim("ReplyWithStringBuffer", 0, order[i], <<>>)>>, "Ok"),
              ReplyMembers(order, i + 1, ctx))

ReplyArray(v, ctx) ==
    Then(Out(<<Prim("ReplyWithArray", Len(v.items), <<>>, <<>>)>>, "Ok"),
         ReplyElems(v.items, 1, ctx))
ReplyMap(v, ctx) ==
    UNION {Then(Out(<<Prim("ReplyWithMap", Cardinality(DOMAIN v.map), <<>>, <<>>)>>, "Ok"),
                ReplyPairs(v.map, order, 1, ctx)) : order \in Orders(DOMAIN v.map)}
ReplySet(v, ctx) ==
    UNION {Then(Out(<<Prim("ReplyWithSet", Cardinality(v.set), <<>>, <<>>)>>, "Ok"),
                ReplyMembers(order, 1, ctx)) : order \in Orders(v.set)}

\* fn reply(&self, r: RedisResult) -> raw::Status: the outcomes it may have
reply(r, ctx) ==
    IF r.ok
    THEN LET v == r.val
         IN  CASE v.kind = "Integer" -> {ReplyInteger(v, ctx)}
               [] v.kind = "Float" -> {ReplyFloat(v, ctx)}
               [] v.kind = "SimpleStringStatic" -> {ReplySimpleString(v, ctx)}
               [] v.kind = "SimpleString" -> {ReplySimpleString(v, ctx)}
               [] v.kind = "BulkString" -> {ReplyBulkString(v, ctx)}
               [] v.kind = "BulkRedisString" -> {ReplyBulkRedisString(v, ctx)}
               [] v.kind = "StringBuffer" -> {ReplyStringBuffer(v, ctx)}
               [] v.kind = "Array" -> ReplyArray(v, ctx)
               [] v.kind = "Map" -> ReplyMap(v, ctx)
               [] v.kind = "Set" -> ReplySet(v, ctx)
               [] v.kind = "Bool" -> {ReplyBool(v, ctx)}
               [] v.kind = "Double" -> {ReplyDouble(v, ctx)}
               [] v.kind = "BigNumber" -> {ReplyBigNumber(v, ctx)}
               [] v.kind = "VerbatimString" -> {ReplyVerbatimString(v, ctx)}
               [] v.kind = "Null" -> {ReplyNull(ctx)}
               [] v.kind = "NoReply" -> {ReplyNoReply(ctx)}
    ELSE CASE r.err.e = "WrongArity" -> {ReplyWrongArity(ctx)}
           [] r.err.e = "WrongType" -> {reply_error_string(WrongTypeMsg, ctx)}
           [] r.err.e = "String" -> {reply_error_string(r.err.msg, ctx)}
           [] r.err.e = "Str" -> {reply_error_string(r.err.msg, ctx)}

(***************************************************************************)
(* The host's side of a reply: the reply object a caller of the command    *)
(* gets from RedisModule_Call (protocol 3, every type kept) for the stream *)
(* of primitives the command's handler called.                             *)
(***************************************************************************)
RECURSIVE Assemble(_, _)
RECURSIVE AssembleN(_, _, _, _)

NoNode == [ok |-> FALSE, node |-> NullPtr, next |-> 0]
Node(r, next) == [ok |-> TRUE, node |-> r, next |-> next]

\* n replies from position pos on
AssembleN(stream, pos, n, acc) ==
    IF n = 0 THEN [ok |-> TRUE, nodes |-> acc, next |-> pos]
    ELSE LET a == Assemble(stream, pos)
         IN  IF ~a.ok THEN [ok |-> FALSE, nodes |-> acc, next |-> pos]
             ELSE AssembleN(stream, a.next, n - 1, Append(acc, a.node))

\* one reply from position pos on
Assemble(stream, pos) ==
    IF pos > Len(stream) THEN NoNode
    ELSE LET e == stream[pos]
         IN  CASE e.call = "ReplyWithLongLong" -> Node(HInteger(e.n), pos + 1)
               [] e.call = "ReplyWithDouble" -> Node(HDouble(e.n), pos + 1)
               [] e.call = "ReplyWithBool" -> Node(HBool(e.n), pos + 1)
               [] e.call = "ReplyWithNull" -> Node(HNull, pos + 1)
               [] e.call \in {"ReplyWithSimpleString", "ReplyWithStringBuffer",
                              "ReplyWithString"} -> Node(HString(e.s), pos + 1)
               [] e.call = "ReplyWithBigNumber" -> Node(HBigNumber(e.s), pos + 1)
               [] e.call = "ReplyWithVerbatimStringType" ->
                      Node(HVerbatimString(e.t, e.s), pos + 1)
               [] e.call = "ReplyWithArray" ->
                      LET c == AssembleN(stream, pos + 1, e.n, <<>>)
                      IN  IF c.ok THEN Node(HArray(c.nodes), c.next) ELSE NoNode
               [] e.call = "ReplyWithMap" ->
                      LET c == AssembleN(stream, pos + 1, 2 * e.n, <<>>)
                      IN  IF c.ok THEN Node(HMap(c.nodes), c.next) ELSE NoNode
               [] e.call = "ReplyWithSet" ->
                      LET c == AssembleN(stream, pos + 1, e.n, <<>>)
                      IN  IF c.ok THEN Node(HSet(c.nodes), c.next) ELSE NoNode
               [] OTHER -> NoNode

\* the stream as exactly one reply
HostReplyOf(stream) ==
    LET a == Assemble(stream, 1)
    IN  IF a.ok /\ a.next = Len(stream) + 1 THEN a ELSE NoNode

(***************************************************************************)
(* The results handed to reply()                                           *)
(***************************************************************************)
\* texts: "OK", "a\r\nb\0c", "a\rb", "e-acute"
Texts == { <<79, 75>>, <<97, 13, 10, 98, 0, 99>>, <<97, 13, 98>>, <<233>> }
\* error messages: "ERR", "a\r\nb\0c", and texts with chars above 255
Messages ==
    { <<69, 82, 82>>, <<97, 13, 10, 98, 0, 99>>, <<233>>, <<256>>, <<101, 266>>,
      <<269>>, <<321>> }
Keys == { <<55>>, <<107, 13>>, <<>> }

TopValues ==
    { VInteger(7), VInteger(0 - 12), VFloat(3), VFloat(2), VDouble(3), VBool(TRUE),
      VBool(FALSE), VNull, VNoReply, VStringBuffer(<<55>>), VStringBuffer(<<97, 13, 0>>),
      VBulkString(<<233>>), VBulkRedisString(<<107>>), VBigNumber(<<49, 50>>),
      VVerbatimString(<<116, 120, 116>>, <<104, 105>>) }
        \cup {VSimpleString(t) : t \in Texts}
        \cup {VSimpleStringStatic(t) : t \in Texts}
ElemValues ==
    { VInteger(7), VFloat(3), VDouble(3), VBool(TRUE), VNull, VStringBuffer(<<55>>),
      VNoReply, VSimpleString(<<97, 0>>) }
KeySets == {S \in SUBSET Keys : Cardinality(S) <= MaxLen}

ValueContainers ==
    {VArray(s) : s \in SeqsUpTo(ElemValues, MaxLen)}
        \cup UNION {{VMap(m) : m \in [S -> ElemValues]} : S \in KeySets}
        \cup {VSet(S) : S \in KeySets}
ValueNested ==
    {VArray(<<VInteger(7), c>>) : c \in ValueContainers}
        \cup {VMap([k \in {<<55>>} |-> c]) : c \in ValueContainers}
Values == TopValues \cup ValueContainers \cup ValueNested

Errors ==
    {ErrWrongArity, ErrWrongType} \cup {ErrString(m) : m \in Messages}
        \cup {ErrStr(m) : m \in Messages}
Results == {Ok(v) : v \in Values} \cup {Err(e) : e \in Errors}

\* without a host ("test" feature) there is no keys-position request
Contexts ==
    {c \in [keysPos : BOOLEAN, featureTest : BOOLEAN, hostStatus : {"Ok", "Err"}] :
        c.featureTest => ~c.keysPos}

ReplyInit ==
    /\ replyPc = "idle"
    /\ context = [keysPos |-> FALSE, featureTest |-> FALSE, hostStatus |-> "Ok"]
    /\ sent = Ok(VNoReply)
    /\ emitted = <<>>
    /\ status = "none"

\* ctx.reply(r), to its return or its panic
Reply ==
    /\ replyPc = "idle"
    /\ \E r \in Results, c \in Contexts :
         \E o \in reply(r, c) :
            /\ context' = c
            /\ sent' = r
            /\ emitted' = o.emitted
            /\ status' = o.status
            /\ replyPc' = IF o.panicked THEN "panicked" ELSE "returned"
    /\ UNCHANGED notReply

\* another module invokes the command and decodes what its handler replied
CallOwnReply ==
    /\ replyPc = "returned"
    /\ callPc = "idle"
    /\ sent.ok
    /\ HostReplyOf(emitted).ok
    /\ callPc' = "returned"
    /\ command' = [api |-> "call", name |-> <<103, 101, 116>>, options |-> FMT]
    /\ callReply' = HostReplyOf(emitted).node
    /\ result' = call_internal(HostReplyOf(emitted).node).result
    /\ trace' = call_internal(HostReplyOf(emitted).node).trace
    /\ UNCHANGED <<builderVars, replyVars, aclVars, versionVars>>

\* the command is over
ReplyDone ==
    /\ replyPc # "idle"
    /\ replyPc' = "idle"
    /\ context' = [keysPos |-> FALSE, featureTest |-> FALSE, hostStatus |-> "Ok"]
    /\ sent' = Ok(VNoReply)
    /\ emitted' = <<>>
    /\ status' = "none"
    /\ callPc' = "idle"
    /\ command' = [api |-> "none", name |-> <<>>, options |-> <<>>]
    /\ callReply' = NullPtr
    /\ result' = Ok(VNull)
    /\ trace' = <<>>
    /\ UNCHANGED <<builderVars, aclVars, versionVars>>

NextReply == Reply \/ CallOwnReply \/ ReplyDone

(***************************************************************************)
(* AclPermissions and Context::acl_check_key_permission                    *)
(* (mod.rs 110-142, 719-744).  The flags are the set of bits that are set. *)
(***************************************************************************)
ErrNoUser ==            \* "User does not exists or disabled"
    <<85,115,101,114,32,100,111,101,115,32,110,111,116,32,101,120,105,115,116,
      115,32,111,114,32,100,105,115,97,98,108,101,100>>
ErrNoPerm ==            \* "User does not have permissions on key"
    <<85,115,101,114,32,100,111,101,115,32,110,111,116,32,104,97,118,101,32,112,
      101,114,109,105,115,115,105,111,110,115,32,111,110,32,107,101,121>>
Unit == Scalar("()", 0, <<>>)

add_access_permission(flags) == flags \cup {"ACCESS"}
add_insert_permission(flags) == flags \cup {"INSERT"}
add_delete_permission(flags) == flags \cup {"DELETE"}
add_update_permission(flags) == flags \cup {"UPDATE"}
add_full_permission(flags) ==
    add_update_permission(add_delete_permission(
        add_insert_permission(add_access_permission(flags))))

AclDone(res, log) == [result |-> res, log |-> log]

\* a check that forgets the user handle when the permission is denied
acl_check_key_permission_leak(userFound, allowed) ==
    IF ~userFound
    THEN AclDone(Err(ErrStr(ErrNoUser)), <<"GetModuleUserFromUserName">>)
    ELSE IF allowed
    THEN AclDone(Ok(Unit), <<"GetModuleUserFromUserName", "ACLCheckKeyPermissions",
                             "FreeModuleUser">>)
    ELSE AclDone(Err(ErrStr(ErrNoPerm)),
                 <<"GetModuleUserFromUserName", "ACLCheckKeyPermissions">>)

\* fn acl_check_key_permission: userFound is whether the host resolved the
\* name to a user handle, allowed whether its check returned REDISMODULE_OK
acl_check_key_permission(userFound, allowed) ==
    IF ~userFound
    THEN AclDone(Err(ErrStr(ErrNoUser)), <<"GetModuleUserFromUserName">>)
    ELSE IF allowed
    THEN AclDone(Ok(Unit), <<"GetModuleUserFromUserName", "ACLCheckKeyPermissions",
                             "FreeModuleUser">>)
    ELSE AclDone(Err(ErrStr(ErrNoPerm)),
                 <<"GetModuleUserFromUserName", "ACLCheckKeyPermissions",
                   "FreeModuleUser">>)

\* user names "al", "bo"; key names "k", "q"
UserNames == { <<97, 108>>, <<98, 111>> }
KeyNames == { <<107>>, <<113>> }
NoAclArgs == [user |-> <<>>, key |-> <<>>, flags |-> {}, userFound |-> FALSE, allowed |-> FALSE]

AclInit ==
    /\ permissions = {}
    /\ aclPc = "idle"
    /\ aclArgs = NoAclArgs
    /\ aclResult = Ok(Unit)
    /\ aclLog = <<>>

AclPermissionsNew ==
    /\ aclPc = "idle"
    /\ permissions' = {}
    /\ UNCHANGED <<aclPc, aclArgs, aclResult, aclLog>>
    /\ UNCHANGED notAcl
AddAccessPermission ==
    /\ aclPc = "idle"
    /\ permissions' = add_access_permission(permissions)
    /\ UNCHANGED <<aclPc, aclArgs, aclResult, aclLog>>
    /\ UNCHANGED notAcl
AddInsertPermission ==
    /\ aclPc = "idle"
    /\ permissions' = add_insert_permission(permissions)
    /\ UNCHANGED <<aclPc, aclArgs, aclResult, aclLog>>
    /\ UNCHANGED notAcl
AddDeletePermission ==
    /\ aclPc = "idle"
    /\ permissions' = add_delete_permission(permissions)
    /\ UNCHANGED <<aclPc, aclArgs, aclResult, aclLog>>
    /\ UNCHANGED notAcl
AddUpdatePermission ==
    /\ aclPc = "idle"
    /\ permissions' = add_update_permission(permissions)
    /\ UNCHANGED <<aclPc, aclArgs, aclResult, aclLog>>
    /\ UNCHANGED notAcl
AddFullPermission ==
    /\ aclPc = "idle"
    /\ permissions' = add_full_permission(permissions)
    /\ UNCHANGED <<aclPc, aclArgs, aclResult, aclLog>>
    /\ UNCHANGED notAcl

\* ctx.acl_check_key_permission(user, key, &permissions)
AclCheckKeyPermission ==
    /\ aclPc = "idle"
    /\ \E user \in UserNames, key \in KeyNames, userFound \in BOOLEAN, allowed \in BOOLEAN :
          /\ userFound \/ ~allowed
          /\ aclArgs' = [user |-> user, key |-> key, flags |-> permissions,
                         userFound |-> userFound, allowed |-> allowed]
          /\ aclResult' = acl_check_key_permission(userFound, allowed).result
          /\ aclLog' = acl_check_key_permission(userFound, allowed).log
    /\ aclPc' = "returned"
    /\ UNCHANGED permissions
    /\ UNCHANGED notAcl

\* the check's result goes to its caller
AclReturn ==
    /\ aclPc = "returned"
    /\ aclPc' = "idle"
    /\ aclArgs' = NoAclArgs
    /\ aclResult' = Ok(Unit)
    /\ aclLog' = <<>>
    /\ UNCHANGED permissions
    /\ UNCHANGED notAcl

NextAcl ==
    \/ AclPermissionsNew
    \/ AddAccessPermission
    \/ AddInsertPermission
    \/ AddDeletePermission
    \/ AddUpdatePermission
    \/ AddFullPermission
    \/ AclCheckKeyPermission
    \/ AclReturn

(***************************************************************************)
(* Server version: get_redis_version, version_from_info (mod.rs 627-674)   *)
(***************************************************************************)
I32Max == 2147483647

\* raw::Version
Version(major, minor, patch) == [major |-> major, minor |-> minor, patch |-> patch]

\* Version::from(i32): the host packs the version as 0x00MMmmpp
VersionFrom(v) == Version((v \div 65536) % 256, (v \div 256) % 256, v % 256)

ErrGettingVersion ==    \* "Error getting redis_version"
    <<69,114,114,111,114,32,103,101,116,116,105,110,103,32,114,101,100,105,115,
      95,118,101,114,115,105,111,110>>
ErrCallingInfo ==       \* "Error calling \"info server\""
    <<69,114,114,111,114,32,99,97,108,108,105,110,103,32,34,105,110,102,111,32,
      115,101,114,118,101,114,34>>
InfoCommand == <<105,110,102,111>>                  \* "info"
ServerArg == <<115,101,114,118,101,114>>            \* "server"
RedisVersionKey ==      \* "redis_version:"
    <<114,101,100,105,115,95,118,101,114,115,105,111,110,58>>

\* std::str::from_utf8: the text of a byte string, or failure when the bytes
\* are not well-formed UTF-8
RECURSIVE from_utf8(_)
from_utf8(b) ==
    IF b = <<>> THEN [ok |-> TRUE, s |-> <<>>]
    ELSE LET b1 == b[1]
             n == IF b1 < 128 THEN 1
                  ELSE IF b1 >= 194 /\ b1 <= 223 THEN 2
                  ELSE IF b1 >= 224 /\ b1 <= 239 THEN 3
                  ELSE IF b1 >= 240 /\ b1 <= 244 THEN 4
                  ELSE 0
             valid ==
                 /\ n > 0
                 /\ Len(b) >= n
                 /\ \A i \in 2..n : b[i] >= 128 /\ b[i] <= 191
                 /\ (b1 = 224 => b[2] >= 160)
                 /\ (b1 = 237 => b[2] <= 159)
                 /\ (b1 = 240 => b[2] >= 144)
                 /\ (b1 = 244 => b[2] <= 143)
             cp == IF n = 1 THEN b1
                   ELSE IF n = 2 THEN (b1 % 32) * 64 + (b[2] % 64)
                   ELSE IF n = 3
                        THEN (b1 % 16) * 4096 + (b[2] % 64) * 64 + (b[3] % 64)
                   ELSE (b1 % 8) * 262144 + (b[2] % 64) * 4096
                            + (b[3] % 64) * 64 + (b[4] % 64)
         IN  IF ~valid THEN [ok |-> FALSE, s |-> <<>>]
             ELSE LET rest == from_utf8(SubSeq(b, n + 1, Len(b)))
                  IN  IF ~rest.ok THEN [ok |-> FALSE, s |-> <<>>]
                      ELSE [ok |-> TRUE, s |-> <<cp>> \o rest.s]

\* [0-9]
IsDigit(c) == c >= 48 /\ c <= 57

\* a word character of the pattern's \b, for the chars up to U+00FF
IsWordChar(c) ==
    \/ IsDigit(c)
    \/ c >= 65 /\ c <= 90
    \/ c >= 97 /\ c <= 122
    \/ c = 95
    \/ c \in {170, 181, 186}
    \/ c >= 192 /\ c <= 255 /\ c # 215 /\ c # 247

\* \b just before position i of s
WordBoundary(s, i) ==
    (i > 1 /\ IsWordChar(s[i - 1])) # (i <= Len(s) /\ IsWordChar(s[i]))

\* [0-9]+ is greedy: the position just after the digits that start at i
RECURSIVE DigitRunEnd(_, _)
DigitRunEnd(s, i) ==
    IF i <= Len(s) /\ IsDigit(s[i]) THEN DigitRunEnd(s, i + 1) ELSE i

\* the pattern (?m)\bredis_version:([0-9]+)\.([0-9]+)\.([0-9]+)\b as its
\* tokens: a word boundary, a literal char, a captured [0-9]+
Boundary == [op |-> "b", c |-> 0]
Lit(c) == [op |-> "lit", c |-> c]
Number == [op |-> "num", c |-> 0]
VersionPattern ==
    <<Boundary>> \o [i \in 1..Len(RedisVersionKey) |-> Lit(RedisVersionKey[i])]
        \o <<Number, Lit(46), Number, Lit(46), Number, Boundary>>

\* the match of the tokens pat at position i of s, with the groups captured
\* so far.  A [0-9]+ takes all the digits there are: what follows it in the
\* pattern (a dot, a word boundary) cannot match after fewer of them.
RECURSIVE Match(_, _, _, _)
Match(s, i, pat, caps) ==
    IF pat = <<>> THEN [some |-> TRUE, ver |-> caps]
    ELSE IF Head(pat).op = "b"
    THEN IF WordBoundary(s, i) THEN Match(s, i, Tail(pat), caps)
         ELSE [some |-> FALSE, ver |-> <<>>]
    ELSE IF Head(pat).op = "num"
    THEN IF DigitRunEnd(s, i) > i
         THEN Match(s, DigitRunEnd(s, i), Tail(pat),
                    Append(caps, SubSeq(s, i, DigitRunEnd(s, i) - 1)))
         ELSE [some |-> FALSE, ver |-> <<>>]
    ELSE IF i <= Len(s) /\ s[i] = Head(pat).c THEN Match(s, i + 1, Tail(pat), caps)
         ELSE [some |-> FALSE, ver |-> <<>>]

\* the leftmost match at or after position i
RECURSIVE Search(_, _)
Search(s, i) ==
    IF i > Len(s) THEN [some |-> FALSE, ver |-> <<>>]
    ELSE IF Match(s, i, VersionPattern, <<>>).some THEN Match(s, i, VersionPattern, <<>>)
    ELSE Search(s, i + 1)

\* utils::get_regexp_captures(text, pattern) for that pattern: the three
\* captured groups of the leftmost match, or None
get_regexp_captures(s) == Search(s, 1)

\* str::parse::<c_int> of a run of digits: fails when the number does not
\* fit in an i32
RECURSIVE ParseDigits(_, _)
ParseDigits(ds, acc) ==
    IF ds = <<>> THEN [ok |-> TRUE, n |-> acc]
    ELSE LET d == Head(ds) - 48
         IN  IF acc > (I32Max - d) \div 10 THEN [ok |-> FALSE, n |-> 0]
             ELSE ParseDigits(Tail(ds), acc * 10 + d)
ParseCInt(ds) == ParseDigits(ds, 0)

NoVersion == Version(0, 0, 0)
VersionDone(pc, res, log) == [pc |-> pc, result |-> res, log |-> log]

\* the Version of the captured groups: each parse::<c_int>().unwrap()
VersionOf(ver) ==
    IF ParseCInt(ver[1]).ok /\ ParseCInt(ver[2]).ok /\ ParseCInt(ver[3]).ok
    THEN VersionDone("returned",
                     Ok(Version(ParseCInt(ver[1]).n, ParseCInt(ver[2]).n,
                                ParseCInt(ver[3]).n)), <<>>)
    ELSE VersionDone("panicked", Ok(NoVersion), <<>>)

\* the regular expression applied to the text, and what follows
VersionFromText(info_str) ==
    IF get_regexp_captures(info_str).some
    THEN VersionOf(get_regexp_captures(info_str).ver)
    ELSE VersionDone("returned", Err(ErrStr(ErrGettingVersion)), <<>>)

\* fn version_from_info(info: RedisValue) -> Result<Version, RedisError>
version_from_info(info) ==
    IF info.kind = "SimpleString" THEN VersionFromText(info.s)
    ELSE IF info.kind = "StringBuffer"
    THEN IF from_utf8(info.s).ok THEN VersionFromText(from_utf8(info.s).s)
         ELSE VersionDone("panicked", Ok(NoVersion), <<>>)
    ELSE VersionDone("returned", Err(ErrStr(ErrGettingVersion)), <<>>)

HostCall(prim, cmd, args) == [prim |-> prim, cmd |-> cmd, args |-> args]
GetServerVersionEv == HostCall("RedisModule_GetServerVersion", <<>>, <<>>)
InfoServerEv == HostCall("RedisModule_Call", InfoCommand, <<ServerArg>>)

\* fn get_redis_version_internal(force_use_rm_call): available is whether
\* the host exports RedisModule_GetServerVersion, serverVersion what it
\* returns, r the host's reply to "info server"
get_redis_version_internal(force_use_rm_call, available, serverVersion, r) ==
    IF available /\ ~force_use_rm_call
    THEN VersionDone("returned", Ok(VersionFrom(serverVersion)), <<GetServerVersionEv>>)
    ELSE IF call_internal(r).result.ok
    THEN VersionDone(version_from_info(call_internal(r).result.val).pc,
                     version_from_info(call_internal(r).result.val).result,
                     <<InfoServerEv>>)
    ELSE VersionDone("returned", Err(ErrStr(ErrCallingInfo)), <<InfoServerEv>>)

\* texts of an "info server" reply: a line before, the key, the version, the
\* rest of the line
InfoPrefixes ==
    { <<>>, <<35,32,83,101,114,118,101,114,13,10>>, <<120>>, <<233>>, <<32>> }
InfoKeys == { RedisVersionKey, <<114,101,100,105,115,95,109,111,100,101,58>> }
InfoVersions ==
    { <<55,46,50,46,51>>,                           \* 7.2.3
      <<49,48,46,48,46,49,50>>,                     \* 10.0.12
      <<48,48,55,46,50,46,48>>,                     \* 007.2.0
      <<55,46,50>>,                                 \* 7.2
      <<50,49,52,55,52,56,51,54,52,55,46,48,46,49>>,    \* 2147483647.0.1
      <<50,49,52,55,52,56,51,54,52,56,46,48,46,49>> }   \* 2147483648.0.1
InfoSuffixes == { <<>>, <<13,10,111,115,58,76>>, <<97>>, <<45,114,99>> }
InfoTexts ==
    { p \o k \o v \o x :
        p \in InfoPrefixes, k \in InfoKeys, v \in InfoVersions, x \in InfoSuffixes }

\* the host's replies to "info server"
InfoReplies ==
    {HString(as_bytes(txt)) : txt \in InfoTexts}
        \cup { HString(<<255>>), HString(RedisVersionKey \o <<55,46,50,46,51,32,195>>),
               NullPtr, HError(<<69, 82, 82>>), HInteger(7), HNull, HArray(<<>>),
               HVerbatimString(<<116, 120, 116>>, as_bytes(RedisVersionKey \o <<55,46,50,46,51>>)) }
\* the values handed to version_from_info
InfoValues ==
    {VSimpleString(txt) : txt \in InfoTexts}
        \cup {VStringBuffer(as_bytes(txt)) : txt \in InfoTexts}
        \cup { VStringBuffer(<<255>>), VBulkString(RedisVersionKey \o <<55,46,50,46,51>>),
               VInteger(7), VNull }
\* 7.2.3 and 255.255.255 as the host packs them
ServerVersions == { 459267, 16777215 }

NoVersionArgs ==
    [api |-> "none", available |-> FALSE, serverVersion |-> 0, reply |-> NullPtr,
     info |-> VNull]

VersionInit ==
    /\ versionPc = "idle"
    /\ versionArgs = NoVersionArgs
    /\ versionResult = Ok(NoVersion)
    /\ versionLog = <<>>

\* ctx.get_redis_version()
GetRedisVersion ==
    /\ versionPc = "idle"
    /\ \E available \in BOOLEAN, v \in ServerVersions, r \in InfoReplies :
          LET done == get_redis_version_internal(FALSE, available, v, r)
          IN  /\ versionArgs' = [api |-> "get_redis_version", available |-> available,
                                 serverVersion |-> v, reply |-> r, info |-> VNull]
              /\ versionPc' = done.pc
              /\ versionResult' = done.result
              /\ versionLog' = done.log
    /\ UNCHANGED notVersion

\* ctx.get_redis_version_rm_call(), of builds with the "test" feature
GetRedisVersionRmCall ==
    /\ versionPc = "idle"
    /\ \E available \in BOOLEAN, v \in ServerVersions, r \in InfoReplies :
          LET done == get_redis_version_internal(TRUE, available, v, r)
          IN  /\ versionArgs' = [api |-> "get_redis_version_rm_call",
                                 available |-> available, serverVersion |-> v,
                                 reply |-> r, info |-> VNull]
              /\ versionPc' = done.pc
              /\ versionResult' = done.result
              /\ versionLog' = done.log
    /\ UNCHANGED notVersion

\* Context::version_from_info(info)
VersionFromInfo ==
    /\ versionPc = "idle"
    /\ \E info \in InfoValues :
          LET done == version_from_info(info)
          IN  /\ versionArgs' = [api |-> "version_from_info", available |-> FALSE,
                                 serverVersion |-> 0, reply |-> NullPtr, info |-> info]
              /\ versionPc' = done.pc
              /\ versionResult' = done.result
              /\ versionLog' = done.log
    /\ UNCHANGED notVersion

\* the query's result goes to its caller
VersionReturn ==
    /\ versionPc # "idle"
    /\ versionPc' = "idle"
    /\ versionArgs' = NoVersionArgs
    /\ versionResult' = Ok(NoVersion)
    /\ versionLog' = <<>>
    /\ UNCHANGED notVersion

NextVersion ==
    \/ GetRedisVersion
    \/ GetRedisVersionRmCall
    \/ VersionFromInfo
    \/ VersionReturn

(***************************************************************************)
(* Specifications                                                          *)
(***************************************************************************)
Init == BuilderInit /\ CallInit /\ ReplyInit /\ AclInit /\ VersionInit
Next == NextBuilder \/ NextCall \/ NextReply \/ NextAcl \/ NextVersion
Spec == Init /\ [][Next]_vars
SpecBuilder == Init /\ [][NextBuilder]_vars
SpecCall == Init /\ [][NextCall]_vars
SpecReply == Init /\ [][NextReply]_vars
SpecAcl == Init /\ [][NextAcl]_vars
SpecVersion == Init /\ [][NextVersion]_vars

(***************************************************************************)
(* Claims                                                                  *)
(***************************************************************************)
FreeCount(h) == Cardinality({i \in 1..Len(trace) : trace[i] = FreeEv(h)})
DecodesOk(r) == parse_call_reply(r, Root).result.ok

\* C1: whatever reply the host returns and however decoding ends, a non-null
\* root handle is released exactly once, after the decoding, a null one never,
\* and no release ever names a child handle.
C1_RootReleasedOnce ==
    callPc = "returned" =>
        /\ FreeCount(Root) = (IF callReply.tag = "NullPtr" THEN 0 ELSE 1)
        /\ \A i \in 1..Len(trace) :
               trace[i].ev = "free" => (trace[i].h = Root /\ i = Len(trace))

\* C1 witness: a container reply whose decoding failed inside a child, released
C1_Witness ==
    /\ callPc = "returned"
    /\ callReply.tag = "Map"
    /\ ~result.ok
    /\ Len(trace) > 2
    /\ trace[Len(trace)] = FreeEv(Root)

\* C2: a null reply handle gives the generic Error "Error on method call" and
\* never Value::Null; a non-null handle tagged Null gives Ok(Value::Null).
C2_NullHandleIsError ==
    callPc = "returned" =>
        /\ callReply.tag = "NullPtr" => result = Err(ErrStr(ErrOnMethodCall))
        /\ callReply.tag = "Null" => result = Ok(VNull)

\* C2 witness: an invocation that got the null handle and returned an Error
C2_Witness == callPc = "returned" /\ callReply.tag = "NullPtr" /\ ~result.ok /\ trace # <<>>

\* a text with each CR, LF and NUL replaced by one space
SanitizedText(s) == [i \in 1..Len(s) |-> IF s[i] \in {CR, LF, NUL} THEN SPACE ELSE s[i]]

\* C3: reply() of a SimpleString or SimpleStringStatic returns a status and
\* hands the simple-string primitive the text with every CR, LF and NUL
\* replaced by one space, all else unchanged ("a\r\nb\0c" goes out as "a  b c").
C3_SimpleStringSanitized ==
    (replyPc # "idle" /\ sent.ok
        /\ sent.val.kind \in {"SimpleString", "SimpleStringStatic"}) =>
        /\ replyPc = "returned"
        /\ emitted = <<Prim("ReplyWithSimpleString", 0,
                            as_bytes(SanitizedText(sent.val.s)), <<>>)>>
        /\ status = context.hostStatus

\* C4: reply() of Err(String(msg)) or Err(Str(msg)) never fails and hands the
\* error primitive bytes without CR, LF or NUL, for every msg, chars above 255
\* included; a msg of ASCII chars goes out as itself with CR, LF, NUL as spaces.
C4_ErrorTextLegal ==
    (replyPc # "idle" /\ ~sent.ok /\ sent.err.e \in {"String", "Str"}) =>
        /\ replyPc = "returned"
        /\ Len(emitted) = 1
        /\ emitted[1].call = "ReplyWithError"
        /\ \A i \in 1..Len(emitted[1].s) : emitted[1].s[i] \notin {CR, LF, NUL}
        /\ (\A i \in 1..Len(sent.err.msg) : sent.err.msg[i] < 128)
              => emitted[1].s = SanitizedText(sent.err.msg)

C5_Shape ==
    /\ options = BaseFlag \o flagCalls
    /\ builds > 0 =>
          /\ token = BaseFlag \o tokenCalls \o <<NUL>>
          /\ Cardinality({i \in 1..Len(token) : token[i] = NUL}) = 1
C5_BuildStep ==
    builds' = builds + 1 =>
        /\ options' = options
        /\ token' = BaseFlag \o flagCalls \o <<NUL>>
        /\ (builds > 0 /\ tokenCalls = flagCalls) => token' = token

\* C5: the token of constract() is the base flag, then one flag per setter
\* call in call order with repeats kept, then exactly one NUL; constract()
\* leaves the builder as it was, and building again gives the same token.
C5_TokenIsFlagsInOrder == [](C5_Shape) /\ [][C5_BuildStep]_vars

\* C5 witness: built twice, after a setter was called twice in a row
C5_Witness ==
    /\ builds = 2
    /\ Len(flagCalls) = 3
    /\ flagCalls[1] = flagCalls[2]
    /\ tokenCalls = flagCalls
    /\ Len(token) = 5

\* the values the round trip is claimed for
RECURSIVE RoundTrippable(_)
RoundTrippable(v) ==
    CASE v.kind \in {"Integer", "Float", "Double", "Bool", "Null", "StringBuffer"} -> TRUE
      [] v.kind = "Array" -> \A i \in 1..Len(v.items) : RoundTrippable(v.items[i])
      [] v.kind = "Map" -> \A k \in DOMAIN v.map : RoundTrippable(v.map[k])
      [] v.kind = "Set" -> TRUE
      [] OTHER -> FALSE

\* a value with every Float in it turned into the Double of the same payload
RECURSIVE FloatAsDouble(_)
FloatAsDouble(v) ==
    CASE v.kind = "Float" -> VDouble(v.n)
      [] v.kind = "Array" -> VArray([i \in 1..Len(v.items) |-> FloatAsDouble(v.items[i])])
      [] v.kind = "Map" -> VMap([k \in DOMAIN v.map |-> FloatAsDouble(v.map[k])])
      [] OTHER -> v

RoundTripCase == replyPc = "returned" /\ sent.ok /\ RoundTrippable(sent.val)

\* C6 as claimed: what the decoder makes of the reply emitted for an Integer,
\* Float, Double, Bool, Null, StringBuffer or an Array/Map/Set of these is the
\* original value, same variant and payload.
C6_RoundTripExact ==
    (RoundTripCase /\ callPc = "returned") => result = Ok(sent.val)

\* C6 amended: the emitted stream is one well-formed reply, and decoding it
\* gives the original value with every Float(x) in it as Double(x).
C6_RoundTripFloatAsDouble ==
    /\ RoundTripCase => HostReplyOf(emitted).ok
    /\ (RoundTripCase /\ callPc = "returned") => result = Ok(FloatAsDouble(sent.val))

\* C6 witness: a Map holding a Float went out and came back with a Double
C6_Witness ==
    /\ RoundTripCase
    /\ callPc = "returned"
    /\ sent.val.kind = "Map"
    /\ \E k \in DOMAIN sent.val.map : sent.val.map[k].kind = "Float"
    /\ result.ok
    /\ \E k \in DOMAIN result.val.map : result.val.map[k].kind = "Double"

\* the byte sequence the claim C7 gives a key or member reply
KeyText(r) ==
    CASE r.tag = "String" -> r.s
      [] r.tag = "Integer" -> as_bytes(IntToString(r.n))
      [] r.tag = "Double" -> as_bytes(F64ToString(r.n))
Narrowable(r) == r.tag \in {"String", "Integer", "Double"}
Compound(r) == r.tag \in {"Array", "Map", "Set"}

\* C7: in a decoded Map or Set every string key/member gives its bytes and
\* every numeric one (integer or double) its decimal text; a nested Array, Map
\* or Set as key/member gives the descriptive Error.
C7_KeysNarrowed ==
    (callPc = "returned" /\ \A i \in 1..Len(callReply.ch) : DecodesOk(callReply.ch[i])) =>
        /\ (callReply.tag = "Map"
               /\ \A i \in 1..call_reply_length(callReply) : Narrowable(callReply.ch[2 * i - 1]))
              => /\ result.ok
                 /\ DOMAIN result.val.map =
                        {KeyText(callReply.ch[2 * i - 1]) : i \in 1..call_reply_length(callReply)}
        /\ (callReply.tag = "Set" /\ \A i \in 1..Len(callReply.ch) : Narrowable(callReply.ch[i]))
              => /\ result.ok
                 /\ result.val.set = {KeyText(callReply.ch[i]) : i \in 1..Len(callReply.ch)}
        /\ (callReply.tag = "Map" /\ callReply.ch # <<>> /\ Compound(callReply.ch[1]))
              => result = Err(ErrStr(ErrMapKey))
        /\ (callReply.tag = "Set" /\ callReply.ch # <<>> /\ Compound(callReply.ch[1]))
              => result = Err(ErrStr(ErrSetMember))

AclCalls(name) == Cardinality({i \in 1..Len(aclLog) : aclLog[i] = name})

\* C9: with no user handle for the name, acl_check_key_permission returns an
\* Error, checks nothing and releases nothing; with one, it checks once and
\* then releases the handle exactly once, and returns Ok exactly when the
\* check passed.
C9_UserHandleReleasedOnce ==
    aclPc = "returned" =>
        IF ~aclArgs.userFound
        THEN /\ ~aclResult.ok
             /\ AclCalls("ACLCheckKeyPermissions") = 0
             /\ AclCalls("FreeModuleUser") = 0
        ELSE /\ AclCalls("ACLCheckKeyPermissions") = 1
             /\ AclCalls("FreeModuleUser") = 1
             /\ \E i, j \in 1..Len(aclLog) :
                   /\ i < j
                   /\ aclLog[i] = "ACLCheckKeyPermissions"
                   /\ aclLog[j] = "FreeModuleUser"
             /\ aclResult.ok <=> aclArgs.allowed

\* C9 witness: the user resolved, the check failed, the handle was released
C9_Witness ==
    /\ aclPc = "returned"
    /\ aclArgs.userFound
    /\ ~aclArgs.allowed
    /\ ~aclResult.ok
    /\ AclCalls("FreeModuleUser") = 1

\* C10: reply(Ok(NoReply)) calls no reply primitive, so that the emitted
\* stream is as it was before the call, and returns Status::Ok.
C10_NoReplyEmitsNothing ==
    [][(replyPc = "idle" /\ replyPc' # "idle" /\ sent'.ok /\ sent'.val.kind = "NoReply")
          => (replyPc' = "returned" /\ emitted' = emitted /\ status' = "Ok")]_vars

\* C10 witness: NoReply was sent where the host's primitives return an error
C10_Witness ==
    /\ replyPc = "returned"
    /\ sent.ok
    /\ sent.val.kind = "NoReply"
    /\ context.hostStatus = "Err"
    /\ status = "Ok"
    /\ emitted = <<>>

\* ASCII letters, digits and underscore; a byte of a multi-byte char counts
\* as part of a word
ByteWord(c) ==
    IsDigit(c) \/ (c >= 65 /\ c <= 90) \/ (c >= 97 /\ c <= 122) \/ c = 95 \/ c >= 128
\* bs holds, from position i on, the key and then three runs of digits
\* separated by dots, the whole delimited as a word
VersionPlace(bs, i, b, c, d) ==
    /\ i + Len(RedisVersionKey) - 1 <= Len(bs)
    /\ SubSeq(bs, i, i + Len(RedisVersionKey) - 1) = RedisVersionKey
    /\ (i > 1 => ~ByteWord(bs[i - 1]))
    /\ i + Len(RedisVersionKey) < b /\ b <= Len(bs) /\ bs[b] = 46
    /\ b + 1 < c /\ c <= Len(bs) /\ bs[c] = 46
    /\ c + 1 < d
    /\ (d <= Len(bs) => ~ByteWord(bs[d]))
MajorEnd(bs, i) == DigitRunEnd(bs, i + Len(RedisVersionKey))
MinorEnd(bs, i) == DigitRunEnd(bs, MajorEnd(bs, i) + 1)
PatchEnd(bs, i) == DigitRunEnd(bs, MinorEnd(bs, i) + 1)
\* the places of bs where redis_version:<major>.<minor>.<patch> stands
VersionPlaces(bs) ==
    { i \in 1..Len(bs) :
        VersionPlace(bs, i, MajorEnd(bs, i), MinorEnd(bs, i), PatchEnd(bs, i)) }
\* a run of digits without its leading zeros
RECURSIVE StripZeros(_)
StripZeros(ds) == IF Len(ds) > 1 /\ Head(ds) = 48 THEN StripZeros(Tail(ds)) ELSE ds
\* the version v is the one written at place i of bs
VersionAt(bs, i, v) ==
    /\ Digits(v.major) =
         StripZeros(SubSeq(bs, i + Len(RedisVersionKey), MajorEnd(bs, i) - 1))
    /\ Digits(v.minor) = StripZeros(SubSeq(bs, MajorEnd(bs, i) + 1, MinorEnd(bs, i) - 1))
    /\ Digits(v.patch) = StripZeros(SubSeq(bs, MinorEnd(bs, i) + 1, PatchEnd(bs, i) - 1))
VersionQuery == versionPc # "idle" /\ versionArgs.api = "get_redis_version"

\* C11: get_redis_version returns the direct primitive's version, with no
\* command invoked, when the primitive is available.  When it is not, it
\* invokes "info server"; it returns an Error when the invocation fails, the
\* major/minor/patch of redis_version:<major>.<minor>.<patch> when the text
\* reply holds it, and an Error, never a panic, when the reply does not hold
\* the pattern or is not text.
C11_GetRedisVersion ==
    VersionQuery =>
        IF versionArgs.available
        THEN /\ versionPc = "returned"
             /\ versionResult = Ok(VersionFrom(versionArgs.serverVersion))
             /\ \A i \in 1..Len(versionLog) : versionLog[i].prim # "RedisModule_Call"
        ELSE /\ versionLog = <<InfoServerEv>>
             /\ versionPc = "returned"
             /\ IF ~DecodesOk(versionArgs.reply)
                THEN ~versionResult.ok
                ELSE IF versionArgs.reply.tag = "String"
                        /\ VersionPlaces(versionArgs.reply.s) # {}
                THEN /\ versionResult.ok
                     /\ \E q \in VersionPlaces(versionArgs.reply.s) :
                            VersionAt(versionArgs.reply.s, q, versionResult.val)
                ELSE /\ ~versionResult.ok
                     /\ versionResult.err.msg # <<>>

\* the path of child j of the reply at path h
ChildPath(r, h, j) ==
    IF r.tag = "Map" THEN h \o <<(j - 1) \div 2, (j - 1) % 2>> ELSE Append(h, j - 1)
\* the replies of the tree r at path h, each before its children, the
\* children by index, a Map's keys each before its value
RECURSIVE PreOrder(_, _)
RECURSIVE PreOrderFrom(_, _, _)
PreOrderFrom(r, h, j) ==
    IF j > Len(r.ch) THEN <<>>
    ELSE PreOrder(r.ch[j], ChildPath(r, h, j)) \o PreOrderFrom(r, h, j + 1)
PreOrder(r, h) == <<[h |-> h, r |-> r]>> \o PreOrderFrom(r, h, 1)
\* the handles the invocation in hand decoded, in the order it decoded them
Decodes == SelectSeq(trace, LAMBDA e : e.ev = "decode")
\* a reply whose own decoding fails, and the Error it gives
FailsAlone(r) == r.tag \in {"Error", "Unknown", "NullPtr"}
OwnError(r) == IF r.tag = "Error" THEN ErrString(r.s) ELSE ErrStr(ErrOnMethodCall)
\* path h ends the subtree of a Map value or of a Set member of the tree:
\* the step after decoding it is the narrowing of that key or member
EndsPairOf(tag, h) ==
    \E i \in 1..Len(PreOrder(callReply, Root)) :
        LET c == PreOrder(callReply, Root)[i]
            sub == PreOrder(c.r, c.h)
        IN  /\ c.r.tag = tag
            /\ Len(c.r.ch) > 0
            /\ \E j \in 1..Len(c.r.ch) :
                  /\ tag = "Map" => j % 2 = 0
                  /\ LET end == PreOrder(c.r.ch[j], ChildPath(c.r, c.h, j))
                     IN  end[Len(end)].h = h
\* children are decoded in index order and decoding stops at the first step
\* that fails, whose Error is the result; a decode that succeeds went
\* through the whole tree
FirstFailureDecides ==
    LET all == PreOrder(callReply, Root)
        n == Len(Decodes)
        last == all[n].r
    IN  /\ n >= 1
        /\ n <= Len(all)
        /\ \A i \in 1..n : Decodes[i].h = all[i].h
        /\ \A i \in 1..(n - 1) : ~FailsAlone(all[i].r)
        /\ IF result.ok
           THEN /\ n = Len(all)
                /\ ~FailsAlone(last)
                /\ result.val.kind = "Array"
                      => Len(result.val.items) = Len(callReply.ch)
           ELSE \/ FailsAlone(last) /\ result.err = OwnError(last)
                \/ /\ ~FailsAlone(last)
                   /\ \/ result.err = ErrStr(ErrMapKey) /\ EndsPairOf("Map", all[n].h)
                      \/ result.err = ErrStr(ErrSetMember) /\ EndsPairOf("Set", all[n].h)
\* the error-tagged replies nested inside the container in hand
NestedErrors ==
    { i \in 2..Len(PreOrder(callReply, Root)) :
        PreOrder(callReply, Root)[i].r.tag = "Error" }

\* C12 as stated: decoding goes by index and the first failing step decides,
\* and an error-tagged reply anywhere inside a container makes the decode
\* return that reply's text as the Error.
C12_NestedErrorAlwaysReturned ==
    (callPc = "returned" /\ callReply.tag \in {"Array", "Map", "Set"}) =>
        /\ FirstFailureDecides
        /\ \A i \in NestedErrors :
              result = Err(ErrString(PreOrder(callReply, Root)[i].r.s))

\* C12: a container's children are decoded in index order (a Map pair as
\* key, value, then the key's narrowing), the result is the Error of the
\* first step that fails, nothing is decoded after it and no partial Value
\* is returned; an error-tagged reply inside the container makes the decode
\* fail, with that reply's text when its decoding is the first step to fail.
C12_FirstFailureDecides ==
    (callPc = "returned" /\ callReply.tag \in {"Array", "Map", "Set"}) =>
        /\ FirstFailureDecides
        /\ \A i \in NestedErrors :
              /\ ~result.ok
              /\ i = Len(Decodes)
                    => result = Err(ErrString(PreOrder(callReply, Root)[i].r.s))
\* an Array whose second element is error-tagged: the decode returned its
\* text after decoding the first element
C12_Witness ==
    /\ callPc = "returned"
    /\ callReply = HArray(<<HInteger(7), HError(<<69, 82, 82>>)>>)
    /\ result = Err(ErrString(<<69, 82, 82>>))
    /\ Len(Decodes) = 3

\* Reading an emitted stream ev against the Value it was emitted for, from
\* position pos on: "ok" with the position after the Value's emission,
\* "cut" when the emission ends inside the Value because an element's
\* reply() panicked, "bad" when the stream is not the Value's emission.
Read(st, pos) == [st |-> st, pos |-> pos]
\* the bytes a Map key goes out as: sanitized, or as they are
KeyBytesSent(k, sanitized) == IF sanitized THEN SanitizedText(k) ELSE k
\* a Value that is not a container goes out as its own reply() emits it
ReadLeaf(v, ctx, ev, pos) ==
    LET o == CHOOSE x \in reply(Ok(v), ctx) : TRUE
        end == pos + Len(o.emitted) - 1
    IN  IF end > Len(ev) \/ SubSeq(ev, pos, end) # o.emitted THEN Read("bad", pos)
        ELSE IF ~o.panicked THEN Read("ok", end + 1)
        ELSE IF end = Len(ev) THEN Read("cut", end + 1)
        ELSE Read("bad", pos)
RECURSIVE ReadValue(_, _, _, _, _)
RECURSIVE ReadElems(_, _, _, _, _, _)
RECURSIVE ReadPairs(_, _, _, _, _, _)
RECURSIVE ReadMembers(_, _, _)
\* the elements of an Array from the i-th on, in sequence order
ReadElems(items, i, ctx, ev, pos, sanitized) ==
    IF i > Len(items) THEN Read("ok", pos)
    ELSE IF ReadValue(items[i], ctx, ev, pos, sanitized).st # "ok"
    THEN ReadValue(items[i], ctx, ev, pos, sanitized)
    ELSE ReadElems(items, i + 1, ctx, ev,
                   ReadValue(items[i], ctx, ev, pos, sanitized).pos, sanitized)
\* the pairs of a Map whose keys are left: a key as a bulk string, and
\* right after it the emission of that key's value
ReadPairs(map, left, ctx, ev, pos, sanitized) ==
    IF left = {} THEN Read("ok", pos)
    ELSE IF pos > Len(ev) THEN Read("bad", pos)
    ELSE IF ev[pos].call # "ReplyWithStringBuffer"
            \/ \A k \in left : KeyBytesSent(k, sanitized) # ev[pos].s
    THEN Read("bad", pos)
    ELSE LET k == CHOOSE x \in left : KeyBytesSent(x, sanitized) = ev[pos].s
         IN  IF ReadValue(map[k], ctx, ev, pos + 1, sanitized).st # "ok"
             THEN ReadValue(map[k], ctx, ev, pos + 1, sanitized)
             ELSE ReadPairs(map, left \ {k}, ctx, ev,
                            ReadValue(map[k], ctx, ev, pos + 1, sanitized).pos, sanitized)
\* the members of a Set that are left, each as a bulk string
ReadMembers(left, ev, pos) ==
    IF left = {} THEN Read("ok", pos)
    ELSE IF pos > Len(ev) THEN Read("bad", pos)
    ELSE IF ev[pos].call # "ReplyWithStringBuffer" \/ ev[pos].s \notin left
    THEN Read("bad", pos)
    ELSE ReadMembers(left \ {ev[pos].s}, ev, pos + 1)
\* a container: its length header, then its elements and nothing else
ReadValue(v, ctx, ev, pos, sanitized) ==
    IF v.kind \notin {"Array", "Map", "Set"} THEN ReadLeaf(v, ctx, ev, pos)
    ELSE IF pos > Len(ev) THEN Read("bad", pos)
    ELSE IF v.kind = "Array"
    THEN IF ev[pos] = Prim("ReplyWithArray", Len(v.items), <<>>, <<>>)
         THEN ReadElems(v.items, 1, ctx, ev, pos + 1, sanitized)
         ELSE Read("bad", pos)
    ELSE IF v.kind = "Map"
    THEN IF ev[pos] = Prim("ReplyWithMap", Cardinality(DOMAIN v.map), <<>>, <<>>)
         THEN ReadPairs(v.map, DOMAIN v.map, ctx, ev, pos + 1, sanitized)
         ELSE Read("bad", pos)
    ELSE IF ev[pos] = Prim("ReplyWithSet", Cardinality(v.set), <<>>, <<>>)
         THEN ReadMembers(v.set, ev, pos + 1)
         ELSE Read("bad", pos)
\* what reply() emitted for the container in hand reads as that container
\* with nothing after it, or as its beginning when reply() panicked
EmittedInOrder(sanitized) ==
    /\ replyPc = "returned" =>
          ReadValue(sent.val, context, emitted, 1, sanitized) = Read("ok", Len(emitted) + 1)
    /\ replyPc = "panicked" =>
          ReadValue(sent.val, context, emitted, 1, sanitized).st = "cut"
ContainerSent == replyPc # "idle" /\ sent.ok /\ sent.val.kind \in {"Array", "Map", "Set"}

\* C13 as stated: the header goes out before any element, Array elements in
\* sequence order by recursive reply(), each Map key as a sanitized bulk
\* string right before its own value, Set members as bulk strings, nothing
\* of another container in between.
C13_MapKeysSanitized == ContainerSent => EmittedInOrder(TRUE)

\* C13: the header goes out before any element, Array elements in sequence
\* order by recursive reply(), each Map key as a bulk string holding the
\* key's bytes as they are right before its own value, Set members as bulk
\* strings, nothing of another container in between.
C13_EmittedInOrder == ContainerSent => EmittedInOrder(FALSE)
\* a Map of two keys, one with a CR, went out as header, key, value, key, value
C13_Witness ==
    /\ replyPc = "returned"
    /\ sent.ok
    /\ sent.val.kind = "Map"
    /\ DOMAIN sent.val.map = {<<55>>, <<107, 13>>}
    /\ Len(emitted) = 5
    /\ \E i \in {2, 4} : emitted[i] = Prim("ReplyWithStringBuffer", 0, <<107, 13>>, <<>>)

\* The emitted stream as the client frames it: the position after the one
\* complete reply that starts at pos, a header of length n taking the n
\* complete replies after it (2n for a Map); 0 when the stream ends first
RECURSIVE FrameEnd(_, _)
RECURSIVE FramesEnd(_, _, _)
FramesEnd(ev, pos, k) ==
    IF k = 0 THEN pos
    ELSE IF FrameEnd(ev, pos) = 0 THEN 0
    ELSE FramesEnd(ev, FrameEnd(ev, pos), k - 1)
FrameEnd(ev, pos) ==
    IF pos > Len(ev) THEN 0
    ELSE IF ev[pos].call \in {"ReplyWithArray", "ReplyWithSet"}
    THEN FramesEnd(ev, pos + 1, ev[pos].n)
    ELSE IF ev[pos].call = "ReplyWithMap" THEN FramesEnd(ev, pos + 1, 2 * ev[pos].n)
    ELSE pos + 1

\* C14: whatever Value tree reply() is given, every container header of
\* declared length n is followed by exactly n complete element replies (n
\* key/value pairs for a Map), at every nesting level and for every element
\* variant, NoReply included: the emitted stream is one complete reply.
C14_DeclaredLengthIsEmitted ==
    ContainerSent => FrameEnd(emitted, 1) = Len(emitted) + 1


====
